---------------------------- MODULE Spec2Model ----------------------------
(***************************************************************************)
(* Model of src/main.py: the HDR night-mode pipeline hdr_night_mode and    *)
(* the helpers it calls.                                                   *)
(*                                                                         *)
(* An image is the flattened sequence of the channel values of its pixels  *)
(* (one BGR pixel: <<b, g, r>>).  A uint8 array element is an integer in   *)
(* 0..255.  A floating-point number is the integer numerator of a fraction *)
(* with denominator FloatDen, so arithmetic on the modelled values is      *)
(* exact.  Python scalars carry their type, because NumPy picks the result *)
(* dtype of array * scalar from it.                                        *)
(*                                                                         *)
(* The OpenCV routines (MergeMertens, fastNlMeansDenoisingColored,         *)
(* cvtColor, CLAHE) are outside the repository.  Each is a deterministic   *)
(* function whose values are not known: the first call on an input picks   *)
(* any value of the routine's output type, later calls on the same input   *)
(* return the value picked (the memo variables).                           *)
(***************************************************************************)
EXTENDS Integers, Sequences, FiniteSets, TLC

VARIABLES
    pc,               \* next stage of hdr_night_mode, or idle / returned / raised
    phase,            \* "none", "first" or "second" call of hdr_night_mode
    args,             \* the arguments of the current call
    image,            \* locals of hdr_night_mode
    exposure_images,
    hdr_image,
    hdr_image_8bit,
    denoised_image,
    final_image,
    lab,              \* locals of contrast_enhancement
    lab_clahe,
    clahe_calls,      \* the planes clahe.apply was called on, in this call
    images,           \* the list object built by generate_exposure_images
    result,           \* the value hdr_night_mode returned
    exc,              \* the exception that left hdr_night_mode
    printed,          \* what this call printed
    trace,            \* the stages this call has executed, in order
    writes,           \* the save_image calls of this call
    disk,             \* output path -> image stored there
    memoMertens,      \* the library functions' values seen so far
    memoDenoise,
    memoBGR2LAB,
    memoCLAHE,
    memoLAB2BGR,
    first,            \* what the first call did, kept for the second
    probe             \* inputs and outputs of a direct increase_exposure check

locals == <<image, exposure_images, hdr_image, hdr_image_8bit, denoised_image,
            final_image, lab, lab_clahe, clahe_calls>>
memos == <<memoMertens, memoDenoise, memoBGR2LAB, memoCLAHE, memoLAB2BGR>>
vars == <<pc, phase, args, locals, images, result, exc, printed, trace, writes,
          disk, memos, first, probe>>

---------------------------------------------------------------------------
(* Bounds and program constants *)

MaxN == 2            \* largest num_images tried
FloatDen == 4        \* modelled floats are multiples of 1/FloatDen
UINT8_MAX == 255     \* the clip bound of lines 60 and 138

None == <<>>          \* the absent image / absent result
NoPath == "<None>"    \* output_path=None
NoExc == "none"

---------------------------------------------------------------------------
(* Python and NumPy arithmetic *)

PyInt(n) == [ty |-> "int", v |-> n]
PyFloat(num) == [ty |-> "float", v |-> num]

\* Python int * scalar -> scalar (line 108: i * exposure_step)
PyMul(i, s) == IF s.ty = "int" THEN PyInt(i * s.v) ELSE PyFloat(i * s.v)

\* Python int + scalar -> scalar (line 108: 1 + ...)
PyAdd(i, s) == IF s.ty = "int" THEN PyInt(i + s.v) ELSE PyFloat(i * FloatDen + s.v)

\* The numeric value of a scalar, as a numerator over FloatDen
Num(s) == IF s.ty = "int" THEN s.v * FloatDen ELSE s.v

U8(p) == [ty |-> "uint8", v |-> p]
F(x) == [ty |-> "float", v |-> x]

\* array element * Python scalar.  A uint8 array times a Python int in
\* 0..255 stays uint8 and wraps; times a Python float it becomes float64.
NpMul(a, s) ==
    IF a.ty = "uint8" /\ s.ty = "int" THEN U8((a.v * s.v) % (UINT8_MAX + 1))
    ELSE F(a.v * s.v)

\* np.clip(a, lo, hi) with integer lo, hi
NpClipNone(a, lo, hi) == a

NpClip(a, lo, hi) ==
    IF a.ty = "uint8"
    THEN U8(IF a.v < lo THEN lo ELSE IF a.v > hi THEN hi ELSE a.v)
    ELSE F(IF a.v < lo * FloatDen THEN lo * FloatDen
           ELSE IF a.v > hi * FloatDen THEN hi * FloatDen ELSE a.v)

\* truncation toward zero of a float
Trunc(x) == IF x >= 0 THEN x \div FloatDen ELSE -((-x) \div FloatDen)

\* a.astype(np.uint8)
AsUint8(a) == IF a.ty = "uint8" THEN a.v ELSE Trunc(a.v) % (UINT8_MAX + 1)

---------------------------------------------------------------------------
(* The helpers of src/main.py *)

increase_exposure(img, factor) ==
    [c \in DOMAIN img |-> AsUint8(NpClip(NpMul(U8(img[c]), factor), 0, UINT8_MAX))]

\* line 106: images = []
images_reused(prev) == prev

images_new(prev) == <<>>

RECURSIVE exposure_loop(_, _, _, _, _)
\* lines 107-109, from index i on
exposure_loop(acc, img, i, num_images, exposure_step) ==
    IF i > num_images THEN acc
    ELSE exposure_loop(
             Append(acc, increase_exposure(img, PyAdd(1, PyMul(i, exposure_step)))),
             img, i + 1, num_images, exposure_step)

generate_exposure_images(prev, img, num_images, exposure_step) ==
    exposure_loop(images_new(prev), img, 1, num_images, exposure_step)

\* line 138
tone_map(hdr) ==
    [c \in DOMAIN hdr |-> AsUint8(NpClip(NpMul(F(hdr[c]), PyInt(UINT8_MAX)), 0, UINT8_MAX))]

\* cv2.split and cv2.merge on a one-pixel image
Split(img) == [k \in DOMAIN img |-> <<img[k]>>]
Merge(planes) == [k \in DOMAIN planes |-> planes[k][1]]

\* line 90: the planes handed to cv2.merge
merge_swapped(l_clahe, a, b) == <<a, l_clahe, b>>

merge_planes(l_clahe, a, b) == <<l_clahe, a, b>>

\* line 89: the plane handed to clahe.apply
clahe_plane(l, a, b) == l

\* line 147: if output_path
AlwaysTrue(p) == TRUE

Truthy(p) == p # NoPath /\ p # ""

\* line 152: except FileNotFoundError
CaughtAny(e) == TRUE

CaughtOther(e) == e = "FileExistsError"

Caught(e) == e = "FileNotFoundError"


---------------------------------------------------------------------------
(* The environment: the files on disk and the OpenCV routines *)

InputImages == {<<0, 45, 200>>, <<100, 128, 255>>}

\* cv2.imread: the decoded image, or None when the path does not decode
imread(path) ==
    CASE path = "dark_a.jpg" -> <<0, 45, 200>>
      [] path = "dark_b.jpg" -> <<100, 128, 255>>
      [] OTHER -> None

InputPaths == {"missing.jpg", "dark_a.jpg", "dark_b.jpg"}

\* cv2.imwrite: "ok" stores the image, "false" returns False without storing
\* (the directory does not exist), "error" raises cv2.error (no encoder for
\* the extension)
imwrite(path) ==
    CASE path = "out.jpg" -> "ok"
      [] path = "nodir/out.jpg" -> "false"
      [] OTHER -> "error"

WritePaths == {"out.jpg", "nodir/out.jpg", "out.xyz"}
OutputPaths == {NoPath, ""} \cup WritePaths

NumImages == 0..MaxN
Steps == {PyFloat(1), PyFloat(FloatDen), PyInt(1)}

\* values the library routines may return: float composites (which may lie
\* outside [0,1]) and 8-bit images and planes
FusedImages == {<<-1, 2, FloatDen + 1>>, <<1, FloatDen, 3>>}
DenoisedImages == {<<10, 20, 30>>, <<100, 128, 255>>}
LabImages == {<<60, 120, 140>>, <<200, 130, 110>>}
ClahePlanes == {<<64>>, <<192>>}
BgrImages == {<<12, 34, 56>>, <<0, 255, 90>>}

\* the values a deterministic routine with the memo `memo` may return on x
Returns(memo, x, range) == IF x \in DOMAIN memo THEN {memo[x]} ELSE range
Learn(memo, x, y) == IF x \in DOMAIN memo THEN memo ELSE memo @@ (x :> y)

EmptyMemo == [x \in {} |-> None]
NoDisk == [p \in WritePaths |-> None]
NoProbe == [image |-> None, f1 |-> PyInt(1), f2 |-> PyInt(1),
            out1 |-> None, out2 |-> None]
NoRun == [pc |-> "idle"]

---------------------------------------------------------------------------
(* hdr_night_mode, one action per stage *)

Ended == {"returned", "raised"}

\* lines 128-150: the statement after each stage
NextStageSwapped(stage) ==
    CASE stage = "load" -> "synth"
      [] stage = "synth" -> "fuse"
      [] stage = "fuse" -> "tonemap"
      [] stage = "tonemap" -> "contrast"
      [] stage = "contrast" -> "denoise"
      [] stage = "denoise" -> "write"

NextStage(stage) ==
    CASE stage = "load" -> "synth"
      [] stage = "synth" -> "fuse"
      [] stage = "fuse" -> "tonemap"
      [] stage = "tonemap" -> "denoise"
      [] stage = "denoise" -> "contrast"
      [] stage = "contrast" -> "write"

\* an exception e leaves the try block: lines 152-154 catch it or it propagates
Raise(e) ==
    IF Caught(e)
    THEN /\ printed' = Append(printed, e)
         /\ result' = None
         /\ pc' = "returned"
         /\ exc' = exc
    ELSE /\ pc' = "raised"
         /\ exc' = e
         /\ UNCHANGED <<printed, result>>

Continue(stage) ==
    /\ pc' = NextStage(stage)
    /\ UNCHANGED <<printed, result, exc>>

\* a new frame of hdr_night_mode: every local is unbound
EnterCall ==
    /\ pc' = "load"
    /\ image' = None /\ exposure_images' = None /\ hdr_image' = None
    /\ hdr_image_8bit' = None /\ denoised_image' = None /\ final_image' = None
    /\ lab' = None /\ lab_clahe' = None /\ clahe_calls' = <<>>
    /\ result' = None /\ exc' = NoExc /\ printed' = <<>>
    /\ trace' = <<>> /\ writes' = <<>>

Summary == [pc |-> pc, trace |-> trace, result |-> result, exc |-> exc,
            printed |-> printed, writes |-> writes, disk |-> disk]

\* line 113, the first call
CallFirst ==
    /\ pc = "idle" /\ phase = "none"
    /\ \E p \in InputPaths, n \in NumImages, s \in Steps, o \in OutputPaths :
           args' = [image_path |-> p, num_images |-> n,
                    exposure_step |-> s, output_path |-> o]
    /\ phase' = "first"
    /\ EnterCall
    /\ UNCHANGED <<images, disk, memos, first, probe>>

\* line 113, a second call with the same arguments
CallAgain ==
    /\ pc \in Ended /\ phase = "first"
    /\ first' = Summary
    /\ phase' = "second"
    /\ EnterCall
    /\ UNCHANGED <<args, images, disk, memos, probe>>

\* lines 128 and 18-21
Load ==
    /\ pc = "load"
    /\ trace' = Append(trace, "load")
    /\ IF imread(args.image_path) = None
       THEN Raise("FileNotFoundError") /\ UNCHANGED image
       ELSE image' = imread(args.image_path) /\ Continue("load")
    /\ UNCHANGED <<phase, args, exposure_images, hdr_image, hdr_image_8bit,
                   denoised_image, final_image, lab, lab_clahe, clahe_calls,
                   images, writes, disk, memos, first, probe>>

\* lines 131 and 106-110
Synthesize ==
    /\ pc = "synth"
    /\ trace' = Append(trace, "synth")
    /\ images' = generate_exposure_images(images, image, args.num_images,
                                          args.exposure_step)
    /\ exposure_images' = images'
    /\ Continue("synth")
    /\ UNCHANGED <<phase, args, image, hdr_image, hdr_image_8bit,
                   denoised_image, final_image, lab, lab_clahe, clahe_calls,
                   writes, disk, memos, first, probe>>

\* lines 134-135: MergeMertens.process asserts a non-empty list
Fuse ==
    /\ pc = "fuse"
    /\ trace' = Append(trace, "fuse")
    /\ IF exposure_images = <<>>
       THEN Raise("cv2.error") /\ UNCHANGED <<hdr_image, memoMertens>>
       ELSE /\ \E out \in Returns(memoMertens, exposure_images, FusedImages) :
                  /\ hdr_image' = out
                  /\ memoMertens' = Learn(memoMertens, exposure_images, out)
            /\ Continue("fuse")
    /\ UNCHANGED <<phase, args, image, exposure_images, hdr_image_8bit,
                   denoised_image, final_image, lab, lab_clahe, clahe_calls,
                   images, writes, disk, memoDenoise, memoBGR2LAB, memoCLAHE,
                   memoLAB2BGR, first, probe>>

\* line 138
ToneMap ==
    /\ pc = "tonemap"
    /\ trace' = Append(trace, "tonemap")
    /\ hdr_image_8bit' = tone_map(hdr_image)
    /\ Continue("tonemap")
    /\ UNCHANGED <<phase, args, image, exposure_images, hdr_image,
                   denoised_image, final_image, lab, lab_clahe, clahe_calls,
                   images, writes, disk, memos, first, probe>>

\* lines 141 and 73
Denoise ==
    /\ pc = "denoise"
    /\ trace' = Append(trace, "denoise")
    /\ \E out \in Returns(memoDenoise, hdr_image_8bit, DenoisedImages) :
           /\ denoised_image' = out
           /\ memoDenoise' = Learn(memoDenoise, hdr_image_8bit, out)
    /\ Continue("denoise")
    /\ UNCHANGED <<phase, args, image, exposure_images, hdr_image,
                   hdr_image_8bit, final_image, lab, lab_clahe, clahe_calls,
                   images, writes, disk, memoMertens, memoBGR2LAB, memoCLAHE,
                   memoLAB2BGR, first, probe>>

\* lines 144 and 86-91
Contrast ==
    /\ pc = "contrast"
    /\ trace' = Append(trace, "contrast")
    /\ \E lab0 \in Returns(memoBGR2LAB, denoised_image, LabImages) :
         LET l == Split(lab0)[1]
             a == Split(lab0)[2]
             b == Split(lab0)[3]
             plane == clahe_plane(l, a, b)
         IN \E l_clahe \in Returns(memoCLAHE, plane, ClahePlanes) :
              LET merged == Merge(merge_planes(l_clahe, a, b))
              IN \E bgr \in Returns(memoLAB2BGR, merged, BgrImages) :
                   /\ lab' = lab0
                   /\ clahe_calls' = Append(clahe_calls, plane)
                   /\ lab_clahe' = merged
                   /\ final_image' = bgr
                   /\ memoBGR2LAB' = Learn(memoBGR2LAB, denoised_image, lab0)
                   /\ memoCLAHE' = Learn(memoCLAHE, plane, l_clahe)
                   /\ memoLAB2BGR' = Learn(memoLAB2BGR, merged, bgr)
    /\ Continue("contrast")
    /\ UNCHANGED <<phase, args, image, exposure_images, hdr_image,
                   hdr_image_8bit, denoised_image, images, writes, disk,
                   memoMertens, memoDenoise, first, probe>>

\* lines 147-150 and 32
SaveAndReturn ==
    /\ pc = "write"
    /\ IF Truthy(args.output_path)
       THEN /\ trace' = Append(trace, "write")
            /\ writes' = Append(writes, [image |-> final_image,
                                         path |-> args.output_path])
            /\ disk' = IF imwrite(args.output_path) = "ok"
                       THEN [disk EXCEPT ![args.output_path] = final_image]
                       ELSE disk
            /\ IF imwrite(args.output_path) = "error"
               THEN Raise("cv2.error")
               ELSE /\ result' = final_image
                    /\ pc' = "returned"
                    /\ UNCHANGED <<printed, exc>>
       ELSE /\ result' = final_image
            /\ pc' = "returned"
            /\ UNCHANGED <<trace, writes, disk, printed, exc>>
    /\ UNCHANGED <<phase, args, locals, images, memos, first, probe>>

PipelineInit ==
    /\ pc = "idle" /\ phase = "none"
    /\ args = [image_path |-> "missing.jpg", num_images |-> 0,
               exposure_step |-> PyInt(1), output_path |-> NoPath]
    /\ image = None /\ exposure_images = None /\ hdr_image = None
    /\ hdr_image_8bit = None /\ denoised_image = None /\ final_image = None
    /\ lab = None /\ lab_clahe = None /\ clahe_calls = <<>>
    /\ images = <<>>
    /\ result = None /\ exc = NoExc /\ printed = <<>>
    /\ trace = <<>> /\ writes = <<>>
    /\ disk = NoDisk
    /\ memoMertens = EmptyMemo /\ memoDenoise = EmptyMemo
    /\ memoBGR2LAB = EmptyMemo /\ memoCLAHE = EmptyMemo
    /\ memoLAB2BGR = EmptyMemo
    /\ first = NoRun

Init == PipelineInit /\ probe = NoProbe

Next ==
    \/ CallFirst
    \/ CallAgain
    \/ Load
    \/ Synthesize
    \/ Fuse
    \/ ToneMap
    \/ Denoise
    \/ Contrast
    \/ SaveAndReturn

Spec == Init /\ [][Next]_vars

---------------------------------------------------------------------------
(* increase_exposure applied directly to an image with two factors *)

ProbeImages == InputImages \cup {<<1, 85, 127>>}
Factors == {PyInt(1), PyInt(2), PyInt(3), PyFloat(FloatDen), PyFloat(FloatDen + 1),
            PyFloat(2 * FloatDen), PyFloat(3 * FloatDen + 2)}

ProbeInit ==
    /\ PipelineInit
    /\ probe \in {[image |-> im, f1 |-> a, f2 |-> b, out1 |-> None, out2 |-> None] :
                    im \in ProbeImages, a \in Factors, b \in Factors}

\* line 60 with the first factor
ExposeFirst ==
    /\ probe.out1 = None
    /\ probe' = [probe EXCEPT !.out1 = increase_exposure(probe.image, probe.f1)]
    /\ UNCHANGED <<pc, phase, args, locals, images, result, exc, printed, trace,
                   writes, disk, memos, first>>

\* line 60 with the second factor
ExposeSecond ==
    /\ probe.out2 = None
    /\ probe' = [probe EXCEPT !.out2 = increase_exposure(probe.image, probe.f2)]
    /\ UNCHANGED <<pc, phase, args, locals, images, result, exc, printed, trace,
                   writes, disk, memos, first>>

ProbeNext == ExposeFirst \/ ExposeSecond

ProbeSpec == ProbeInit /\ [][ProbeNext]_vars

---------------------------------------------------------------------------
(* Vocabulary of the properties *)

Pipeline == <<"load", "synth", "fuse", "tonemap", "denoise", "contrast">>

IsPrefix(s, t) == Len(s) <= Len(t) /\ \A i \in 1..Len(s) : s[i] = t[i]

Ran(stage) == \E i \in 1..Len(trace) : trace[i] = stage

PathSupplied == args.output_path \notin {NoPath, ""}

FullOrder == IF PathSupplied THEN Append(Pipeline, "write") ELSE Pipeline

LoadFails == imread(args.image_path) = None

\* the disk as the current call found it
DiskBefore == IF phase = "second" THEN first.disk ELSE NoDisk

IsU8Image(img) == \A c \in DOMAIN img : img[c] \in 0..UINT8_MAX

\* clamp(x, 0, 255) truncated to an integer, x a numerator over FloatDen
ClampTrunc(x) ==
    IF x < 0 THEN 0
    ELSE IF x > UINT8_MAX * FloatDen THEN UINT8_MAX
    ELSE x \div FloatDen

---------------------------------------------------------------------------
(* Properties *)

\* C1: when the input path does not decode, hdr_night_mode prints the error
\* and returns None; the exception does not propagate, no later stage runs,
\* and nothing is written even when an output path was supplied.
C1_LoadFailureAbsentResult ==
    (Ran("load") /\ LoadFails) =>
        /\ pc = "returned" /\ result = None /\ exc = NoExc
        /\ printed = <<"FileNotFoundError">>
        /\ trace = <<"load">>
        /\ writes = <<>> /\ disk = DiskBefore
        /\ exposure_images = None /\ hdr_image = None /\ hdr_image_8bit = None
        /\ denoised_image = None /\ final_image = None

C1_Witness ==
    /\ pc = "returned" /\ LoadFails /\ Ran("load") /\ PathSupplied

\* C2: for N >= 1 and s > 0, image i of generate_exposure_images equals
\* clamp(source * (1 + i*s), 0, 255) truncated, per channel; products above
\* 255 saturate and never wrap modulo 256.
C2_ExposureSaturates ==
    (Ran("synth") /\ args.num_images >= 1 /\ Num(args.exposure_step) > 0) =>
        /\ Len(exposure_images) = args.num_images
        /\ \A i \in 1..Len(exposure_images) : \A c \in DOMAIN image :
               exposure_images[i][c] =
                   ClampTrunc(image[c] * (FloatDen + i * Num(args.exposure_step)))

\* The statement of C2 restricted to steps that are Python floats.
ExposureSaturatesForFloatStep ==
    (Ran("synth") /\ args.num_images >= 1 /\ args.exposure_step.ty = "float"
       /\ Num(args.exposure_step) > 0) =>
        /\ Len(exposure_images) = args.num_images
        /\ \A i \in 1..Len(exposure_images) : \A c \in DOMAIN image :
               /\ exposure_images[i][c] =
                      ClampTrunc(image[c] * (FloatDen + i * Num(args.exposure_step)))
               /\ i > 1 => exposure_images[i][c] >= exposure_images[i - 1][c]

\* C3: generate_exposure_images returns exactly N images, and for s > 0 image
\* i is at every channel greater than or equal to image i-1.
C3_ExposuresMonotone ==
    Ran("synth") =>
        /\ Len(exposure_images) = args.num_images
        /\ Num(args.exposure_step) > 0 =>
               \A i \in 2..Len(exposure_images) : \A c \in DOMAIN image :
                   exposure_images[i][c] >= exposure_images[i - 1][c]

\* C4: for factors 1 <= f1 <= f2, integer-valued or fractional,
\* increase_exposure(I, f1) <= increase_exposure(I, f2) at every channel, and
\* both outputs lie in 0..255.
C4_IncreaseExposureMonotone ==
    (probe.out1 # None /\ probe.out2 # None
       /\ Num(probe.f1) >= FloatDen /\ Num(probe.f1) <= Num(probe.f2)) =>
        /\ IsU8Image(probe.out1) /\ IsU8Image(probe.out2)
        /\ \A c \in DOMAIN probe.image : probe.out1[c] <= probe.out2[c]

\* The statement of C4 restricted to factors that are Python floats.
IncreaseExposureMonotoneForFloats ==
    (probe.out1 # None /\ probe.out2 # None
       /\ probe.f1.ty = "float" /\ probe.f2.ty = "float"
       /\ Num(probe.f1) >= FloatDen /\ Num(probe.f1) <= Num(probe.f2)) =>
        /\ IsU8Image(probe.out1) /\ IsU8Image(probe.out2)
        /\ \A c \in DOMAIN probe.image : probe.out1[c] <= probe.out2[c]

\* The part of C5 about the order: the stages executed are always an initial
\* part of load, synth, fuse, tonemap, denoise, contrast, (write); the stage
\* about to run is the next one of that order; a call that returns an image
\* has executed all of them.
StagesInOrder ==
    /\ IsPrefix(trace, FullOrder)
    /\ pc \notin (Ended \cup {"idle"}) =>
           pc = Append(Pipeline, "write")[Len(trace) + 1]
    /\ (pc = "returned" /\ result # None) => trace = FullOrder

\* C5 as stated: the stages run in the fixed order, none twice, none skipped
\* on a successful run, and the only call that ends without having run them
\* all is the load failure.
C5_OnlyLoadFailureDeviates ==
    /\ StagesInOrder
    /\ (pc \in Ended /\ trace # FullOrder) =>
           (LoadFails /\ trace = <<"load">> /\ pc = "returned" /\ result = None)

\* C5 amended: the stages run in the fixed order, none twice, none skipped on
\* a successful run; a call that ends without having run them all is either
\* the load failure or one that an uncaught exception of its last stage ended.
C5_FixedOrderOrTerminalFailure ==
    /\ StagesInOrder
    /\ (pc \in Ended /\ trace # FullOrder) =>
           \/ LoadFails /\ trace = <<"load">> /\ pc = "returned" /\ result = None
           \/ pc = "raised" /\ exc = "cv2.error" /\ result = None

C5_Witness ==
    /\ pc = "returned" /\ trace = Append(Pipeline, "write") /\ result # None

\* C6: save_image is called if and only if an output path was supplied and
\* all processing stages have completed; the image it is given is the
\* contrast-enhanced final image that hdr_night_mode returns; without an
\* output path nothing is written and the final image is still returned.
C6_WriterIffOutputPath ==
    /\ writes # <<>> =>
           /\ PathSupplied /\ IsPrefix(Pipeline, trace)
           /\ writes = <<[image |-> final_image, path |-> args.output_path]>>
           /\ final_image # None
           /\ imwrite(args.output_path) = "ok" =>
                  disk[args.output_path] = final_image
    /\ (pc \in Ended /\ IsPrefix(Pipeline, trace)) =>
           (writes # <<>> <=> PathSupplied)
    /\ (pc = "returned" /\ IsPrefix(Pipeline, trace)) =>
           (result = final_image /\ result # None)
    /\ ~PathSupplied => (writes = <<>> /\ disk = NoDisk)

C6_Witness ==
    /\ pc = "returned" /\ PathSupplied /\ writes # <<>>
    /\ disk[args.output_path] = result /\ result # None

\* C7: a second call on the same input image with the same parameters passes
\* through the same stages and ends with the same result, the same exception,
\* the same printed text and the same written output as the first.
C7_SecondRunRepeatsFirst ==
    phase = "second" =>
        /\ IsPrefix(trace, first.trace)
        /\ pc \in Ended => Summary = first

C7_Witness ==
    /\ phase = "second" /\ pc = "returned" /\ result # None /\ writes # <<>>

\* C8: the tone mapper turns every fused value x into clamp(255*x, 0, 255)
\* truncated, so every value handed to the denoiser and every value written
\* lies in 0..255.
C8_ToneMapClamps ==
    /\ Ran("tonemap") =>
           /\ \A c \in DOMAIN hdr_image :
                  hdr_image_8bit[c] = ClampTrunc(UINT8_MAX * hdr_image[c])
           /\ IsU8Image(hdr_image_8bit)
    /\ \A x \in DOMAIN memoDenoise : IsU8Image(x)
    /\ \A i \in 1..Len(writes) : IsU8Image(writes[i].image)
    /\ \A p \in WritePaths : IsU8Image(disk[p])

C8_Witness ==
    /\ Ran("denoise")
    /\ \E c \in DOMAIN hdr_image : hdr_image[c] < 0 /\ hdr_image_8bit[c] = 0
    /\ \E c \in DOMAIN hdr_image :
           hdr_image[c] > FloatDen /\ hdr_image_8bit[c] = UINT8_MAX

\* C9: contrast_enhancement recombines the equalized lightness with exactly
\* the two chrominance planes that the split of the converted input gave, and
\* applies the equalization to the lightness plane and to no other.
C9_ChrominanceUnchanged ==
    Ran("contrast") =>
        /\ Split(lab_clahe)[2] = Split(lab)[2]
        /\ Split(lab_clahe)[3] = Split(lab)[3]
        /\ clahe_calls = <<Split(lab)[1]>>
        /\ Split(lab_clahe)[1] = memoCLAHE[Split(lab)[1]]

C9_Witness ==
    /\ Ran("contrast") /\ lab_clahe[1] # lab[1] /\ lab[2] # lab[3]

\* C10: only the load failure becomes an absent result.  An exception of a
\* later stage (the fuser on the empty exposure set of num_images = 0)
\* propagates, nothing is returned or printed, and when it is raised before
\* save_image nothing is written.
C10_LaterFailuresPropagate ==
    /\ (pc = "returned" /\ result = None) => LoadFails
    /\ (Ran("fuse") /\ exposure_images = <<>>) =>
           /\ pc = "raised" /\ exc = "cv2.error"
           /\ trace = <<"load", "synth", "fuse">>
    /\ (writes # <<>> /\ imwrite(args.output_path) = "error") => pc = "raised"
    /\ pc = "raised" =>
           /\ exc = "cv2.error" /\ result = None /\ printed = <<>>
           /\ ~Ran("write") => (writes = <<>> /\ disk = DiskBefore)

C10_Witness ==
    /\ pc = "raised" /\ args.num_images = 0 /\ PathSupplied /\ Ran("fuse")

=============================================================================
